---- MODULE Spec2Model ----
(***************************************************************************)
(* ClientDialog (src/src/components/ClientDialog.tsx): a modal form that   *)
(* holds a partial client record, loads extra column definitions when it   *)
(* opens, validates four mandatory fields in create mode and forwards the  *)
(* record to the caller's save callback.                                   *)
(*                                                                         *)
(* React state is modelled as it behaves: a handler reads the values that  *)
(* were bound at the last render (formData), setFormData queues an update  *)
(* (formDataState is the state with every queued update applied), and the  *)
(* next render binds formData to it.  Updates made inside a DOM event      *)
(* handler are rendered before the next event; updates made by a child's   *)
(* callback wait for the render the framework schedules (Render).          *)
(*                                                                         *)
(* Spec is the component as a whole: the parent changes the props, fetches *)
(* settle, the user edits two of the fields and uses every other control.  *)
(* SpecSession is one session of the open dialog with the props as         *)
(* mounted, in which the user edits every mandatory field; it reaches the  *)
(* submits that need all four of them filled.                              *)
(***************************************************************************)
EXTENDS Integers, Sequences, FiniteSets, TLC

VARIABLES
    open,                 \* prop open
    mode,                 \* prop mode: "create" | "edit"
    client,               \* prop client: a client record, or Undefined
    formData,             \* useState formData, as bound at the last render
    formDataState,        \* useState formData, with the queued updates applied
    tempClientId,         \* useState tempClientId
    dynamicColumns,       \* useState dynamicColumns
    validationError,      \* useState validationError
    showValidationError,  \* useState showValidationError
    inflight,             \* getColumnMetadata() calls not yet settled
    fetchCount,           \* getColumnMetadata() calls issued so far
    genCount,             \* temporary identifiers generated so far
    budget,               \* operations the bound still allows
    last                  \* the last operation, its arguments and its calls of onSave

vars == <<open, mode, client, formData, formDataState, tempClientId,
          dynamicColumns, validationError, showValidationError, inflight,
          fetchCount, genCount, budget, last>>

---------------------------------------------------------------------------
(* Bounds *)

MaxSteps == 4
MaxSessionSteps == 6
MaxOpens == 2

---------------------------------------------------------------------------
(* Values.  A JavaScript value is tagged with its type; a string is a      *)
(* sequence of one-character strings so that trim() can be computed.       *)

Undefined == [kind |-> "undefined"]
Str(s) == [kind |-> "string", s |-> s]
Bool(b) == [kind |-> "boolean", b |-> b]
Num(n) == [kind |-> "number", n |-> n]
Obj(m) == [kind |-> "object", m |-> m]

EmptyMap == [k \in {} |-> Undefined]

MandatoryFields == <<"first_name", "last_name", "primary_email", "primary_phone">>
MandatorySet == {MandatoryFields[i] : i \in 1..Len(MandatoryFields)}
ColumnNames == {"dyn1"}
StaticFields == MandatorySet \cup {"is_active", "case_status"}
Keys == StaticFields \cup ColumnNames \cup {"id", "user_defined_fields", "client_documents"}

\* {} : a record with no key
EmptyRecord == [k \in Keys |-> Undefined]

\* what the user can type into a text input
TextInputs == {<< >>, <<" ">>, <<"a">>}
\* what the sub-dialogs can return: two maps with disjoint keys, and one that
\* gives a key of the first another value
CustomFieldNames == {"k1", "k2"}
CustomFieldSaves ==
    { [n \in {"k1"} |-> Str(<<"x">>)],
      [n \in {"k2"} |-> Str(<<"y">>)],
      [n \in {"k1"} |-> Str(<<"y">>)] }
DocumentNames == {"d1", "d2"}
DocumentSaves ==
    { [n \in {"d1"} |-> Str(<<"u">>)],
      [n \in {"d2"} |-> Str(<<"w">>)],
      [n \in {"d1"} |-> Str(<<"w">>)] }
\* what columnService.getColumnMetadata() can return
ColumnLists == {<< >>, <<"dyn1">>}

\* client props the parent can pass
ClientZero ==
    [k \in Keys |->
        CASE k = "id" -> Num(0)
          [] k = "first_name" -> Str(<<"a">>)
          [] k = "last_name" -> Str(<<"a">>)
          [] k = "user_defined_fields" -> Obj([n \in {"k1"} |-> Str(<<"x">>)])
          [] OTHER -> Undefined]
ClientSeven ==
    [k \in Keys |->
        CASE k = "id" -> Num(7)
          [] k = "primary_email" -> Str(<<" ">>)
          [] k = "is_active" -> Bool(FALSE)
          [] k = "client_documents" -> Obj([n \in {"d1"} |-> Str(<<"u">>)])
          [] OTHER -> Undefined]
ClientProps == {Undefined, ClientZero, ClientSeven}
Modes == {"create", "edit"}

---------------------------------------------------------------------------
(* Pure helpers *)

\* JavaScript truthiness of a value
Truthy(v) ==
    CASE v.kind = "undefined" -> FALSE
      [] v.kind = "string" -> v.s # << >>
      [] v.kind = "boolean" -> v.b
      [] v.kind = "number" -> v.n # 0
      [] OTHER -> TRUE

\* a || {} on a sub-map, and the spread {...a} of a possibly undefined sub-map
OrEmpty(v) == IF Truthy(v) THEN v.m ELSE EmptyMap

\* {...a, ...b}
Spread(a, b) ==
    [k \in (DOMAIN a) \cup (DOMAIN b) |-> IF k \in DOMAIN b THEN b[k] ELSE a[k]]

\* delete m[name]
DeleteKey(m, name) == [k \in (DOMAIN m) \ {name} |-> m[k]]

IsSpace(c) == c = " "

RECURSIVE TrimStart(_)
TrimStart(s) ==
    IF s # << >> /\ IsSpace(Head(s)) THEN TrimStart(Tail(s)) ELSE s

RECURSIVE TrimEnd(_)
TrimEnd(s) ==
    IF s # << >> /\ IsSpace(s[Len(s)]) THEN TrimEnd(SubSeq(s, 1, Len(s) - 1)) ELSE s

\* String.prototype.trim
Trim(s) == TrimEnd(TrimStart(s))

\* IsMissing without the trim()
IsMissingNoTrim(rec, field) ==
    IF rec[field].kind = "undefined" THEN TRUE ELSE rec[field].s = << >>

\* !rec.field?.trim()
IsMissing(rec, field) ==
    IF rec[field].kind = "undefined" THEN TRUE ELSE Trim(rec[field].s) = << >>

\* Array.prototype.join
RECURSIVE Join(_, _)
Join(list, sep) ==
    IF list = << >> THEN ""
    ELSE IF Len(list) = 1 THEN list[1]
    ELSE list[1] \o sep \o Join(Tail(list), sep)

\* `temp_${Date.now()}_${Math.random()...}`: the n-th identifier generated
TempId(n) == "temp_" \o ToString(n)

---------------------------------------------------------------------------
(* validateMandatoryFields / handleSubmit *)

\* the four if-statements that push a label, in source order
MissingFields(rec) ==
    (IF IsMissing(rec, "first_name") THEN <<"First Name">> ELSE << >>)
    \o (IF IsMissing(rec, "last_name") THEN <<"Last Name">> ELSE << >>)
    \o (IF IsMissing(rec, "primary_email") THEN <<"Primary Email">> ELSE << >>)
    \o (IF IsMissing(rec, "primary_phone") THEN <<"Primary Phone">> ELSE << >>)

ErrorMessage(missing) ==
    "Please fill the following mandatory fields: " \o Join(missing, ", ")

\* the return value of validateMandatoryFields()
validateMandatoryFields(rec) == Len(MissingFields(rec)) = 0

\* handleSubmit without the return after a failed validation
OnSaveCallsNoReturn(m, rec) == <<rec>>

\* the arguments of the calls of onSave that handleSubmit makes
OnSaveCalls(m, rec) ==
    IF m = "create" /\ ~validateMandatoryFields(rec) THEN << >> ELSE <<rec>>

\* getClientIdForDocuments(), evaluated at render for DocumentsDialog's clientId
getClientIdForDocuments ==
    IF mode = "edit" /\ client # Undefined /\ Truthy(client["id"])
    THEN ToString(client["id"].n)
    ELSE tempClientId

---------------------------------------------------------------------------
(* Initialisation effect: useEffect(..., [client, mode]) *)

DefaultRecord == [EmptyRecord EXCEPT !["case_status"] = Str(<<"A", "c", "t", "i", "v", "e">>)]

\* the branch test without the mode: any provided record is loaded
LoadsClientAnyMode(c, m) == c # Undefined

LoadsClient(c, m) == c # Undefined /\ m = "edit"

\* the effect's writes, given the props it runs with
InitEffect(c, m) ==
    IF LoadsClient(c, m)
    THEN /\ formDataState' = c
         /\ formData' = c
         /\ UNCHANGED <<tempClientId, genCount>>
    ELSE /\ genCount' = genCount + 1
         /\ tempClientId' = TempId(genCount + 1)
         /\ formDataState' = DefaultRecord
         /\ formData' = DefaultRecord

NoCall(op) == [op |-> op, key |-> "", arg |-> Undefined, calls |-> << >>]

\* one more operation, while the bound allows it
Step == budget > 0 /\ budget' = budget - 1

\* the component after it is mounted and its effects have run
Mounted ==
    /\ open \in BOOLEAN
    /\ mode \in Modes
    /\ client \in ClientProps
    /\ IF LoadsClient(client, mode)
       THEN formData = client /\ tempClientId = "" /\ genCount = 0
       ELSE formData = DefaultRecord /\ tempClientId = TempId(1) /\ genCount = 1
    /\ formDataState = formData
    /\ dynamicColumns = << >>
    /\ validationError = ""
    /\ showValidationError = FALSE
    /\ inflight = IF open THEN {1} ELSE {}
    /\ fetchCount = IF open THEN 1 ELSE 0
    /\ last = NoCall("mount")

Init == Mounted /\ budget = MaxSteps

---------------------------------------------------------------------------
(* Props changed by the parent *)

\* open: false -> true; useEffect(..., [open]) calls fetchDynamicColumns()
OpenDialog ==
    /\ Step
    /\ ~open
    /\ fetchCount < MaxOpens
    /\ open' = TRUE
    /\ fetchCount' = fetchCount + 1
    /\ inflight' = inflight \cup {fetchCount + 1}
    /\ last' = NoCall("open")
    /\ UNCHANGED <<mode, client, formData, formDataState, tempClientId,
                   dynamicColumns, validationError, showValidationError, genCount>>

\* the effect without its `if (open)` test: closing fetches too
CloseDialogFetching ==
    /\ Step
    /\ open
    /\ open' = FALSE
    /\ fetchCount' = fetchCount + 1
    /\ inflight' = inflight \cup {fetchCount + 1}
    /\ last' = NoCall("close")
    /\ UNCHANGED <<mode, client, formData, formDataState, tempClientId,
                   dynamicColumns, validationError, showValidationError, genCount>>

\* open: true -> false; the effect runs and does nothing
CloseDialog ==
    /\ Step
    /\ open
    /\ open' = FALSE
    /\ last' = NoCall("close")
    /\ UNCHANGED <<mode, client, formData, formDataState, tempClientId,
                   dynamicColumns, validationError, showValidationError,
                   inflight, fetchCount, genCount>>

\* client or mode changes; the render binds the queued state, then the effect runs
SetProps(c, m) ==
    /\ Step
    /\ <<c, m>> # <<client, mode>>
    /\ client' = c
    /\ mode' = m
    /\ InitEffect(c, m)
    /\ last' = NoCall("props")
    /\ UNCHANGED <<open, dynamicColumns, validationError, showValidationError,
                   inflight, fetchCount>>

---------------------------------------------------------------------------
(* fetchDynamicColumns *)

\* await columnService.getColumnMetadata() resolves with columns
FetchResolved(id, columns) ==
    /\ Step
    /\ id \in inflight
    /\ inflight' = inflight \ {id}
    /\ dynamicColumns' = columns
    /\ last' = [op |-> "fetchResolved", key |-> ToString(id), arg |-> Obj(columns),
                calls |-> << >>]
    /\ UNCHANGED <<open, mode, client, formData, formDataState, tempClientId,
                   validationError, showValidationError, fetchCount, genCount>>

\* await columnService.getColumnMetadata() rejects: the catch block logs
FetchRejected(id) ==
    /\ Step
    /\ id \in inflight
    /\ inflight' = inflight \ {id}
    /\ last' = [NoCall("fetchRejected") EXCEPT !.key = ToString(id)]
    /\ UNCHANGED <<open, mode, client, formData, formDataState, tempClientId,
                   dynamicColumns, validationError, showValidationError,
                   fetchCount, genCount>>

---------------------------------------------------------------------------
(* Form handlers.  handleChange, the two delete handlers and handleSubmit  *)
(* are DOM event handlers of the rendered form: they read formData as the  *)
(* last render bound it, and the framework renders their updates before    *)
(* the next event.  handleDynamicFieldChange, handleCustomFieldsSave and   *)
(* handleDocumentsSave are called by child components; their updates are   *)
(* queued until Render.                                                    *)

\* the events the rendered inputs deliver: the Switch is a checkbox, the rest text
Events(field) ==
    IF field = "is_active"
    THEN {[type |-> "checkbox", value |-> <<"o", "n">>, checked |-> b] : b \in BOOLEAN}
    ELSE {[type |-> "text", value |-> t, checked |-> FALSE] : t \in TextInputs}
EditedFields == MandatorySet \cup {"is_active"}
DynamicValues == {Str(<<"v">>), Num(3)}

\* event.target.type === "checkbox" ? event.target.checked : event.target.value
EventValue(event) ==
    IF event.type = "checkbox" THEN Bool(event.checked) ELSE Str(event.value)

\* { ...rec, [field]: value }
WithField(rec, field, value) == [rec EXCEPT ![field] = value]

\* a merge that replaces the sub-map by what the dialog returned
MergeReplacing(sub, returned) == Obj(returned)

\* { ...(sub || {}), ...returned }
MergeInto(sub, returned) == Obj(Spread(OrEmpty(sub), returned))

\* const updated = { ...sub }; delete updated[name];
Without(sub, name) == Obj(DeleteKey(OrEmpty(sub), name))

\* the keys of a sub-map that the rendered list shows with a delete button
ListedKeys(sub) == IF Truthy(sub) THEN DOMAIN sub.m ELSE {}

handleChange(field, event) ==
    /\ Step
    /\ open
    /\ formDataState' = WithField(formData, field, EventValue(event))
    /\ formData' = formDataState'
    /\ last' = [op |-> "handleChange", key |-> field, arg |-> EventValue(event),
                calls |-> << >>]
    /\ UNCHANGED <<open, mode, client, tempClientId, dynamicColumns, validationError,
                   showValidationError, inflight, fetchCount, genCount>>

handleDynamicFieldChange(columnName, value) ==
    /\ Step
    /\ open
    /\ \E i \in 1..Len(dynamicColumns) : dynamicColumns[i] = columnName
    /\ formDataState' = WithField(formDataState, columnName, value)
    /\ last' = [op |-> "handleDynamicFieldChange", key |-> columnName, arg |-> value,
                calls |-> << >>]
    /\ UNCHANGED <<open, mode, client, formData, tempClientId, dynamicColumns,
                   validationError, showValidationError, inflight, fetchCount, genCount>>

handleCustomFieldsSave(fields) ==
    /\ Step
    /\ open
    /\ formDataState' =
           WithField(formDataState, "user_defined_fields",
                     MergeInto(formDataState["user_defined_fields"], fields))
    /\ last' = [op |-> "handleCustomFieldsSave", key |-> "user_defined_fields",
                arg |-> Obj(fields), calls |-> << >>]
    /\ UNCHANGED <<open, mode, client, formData, tempClientId, dynamicColumns,
                   validationError, showValidationError, inflight, fetchCount, genCount>>

handleDocumentsSave(documents) ==
    /\ Step
    /\ open
    /\ formDataState' =
           WithField(formDataState, "client_documents",
                     MergeInto(formDataState["client_documents"], documents))
    /\ last' = [op |-> "handleDocumentsSave", key |-> "client_documents",
                arg |-> Obj(documents), calls |-> << >>]
    /\ UNCHANGED <<open, mode, client, formData, tempClientId, dynamicColumns,
                   validationError, showValidationError, inflight, fetchCount, genCount>>

handleDeleteCustomField(fieldName) ==
    /\ Step
    /\ open
    /\ fieldName \in ListedKeys(formData["user_defined_fields"])
    /\ formDataState' =
           WithField(formDataState, "user_defined_fields",
                     Without(formData["user_defined_fields"], fieldName))
    /\ formData' = formDataState'
    /\ last' = [op |-> "handleDeleteCustomField", key |-> "user_defined_fields",
                arg |-> Str(<<fieldName>>), calls |-> << >>]
    /\ UNCHANGED <<open, mode, client, tempClientId, dynamicColumns, validationError,
                   showValidationError, inflight, fetchCount, genCount>>

handleDeleteDocument(docName) ==
    /\ Step
    /\ open
    /\ docName \in ListedKeys(formData["client_documents"])
    /\ formDataState' =
           WithField(formDataState, "client_documents",
                     Without(formData["client_documents"], docName))
    /\ formData' = formDataState'
    /\ last' = [op |-> "handleDeleteDocument", key |-> "client_documents",
                arg |-> Str(<<docName>>), calls |-> << >>]
    /\ UNCHANGED <<open, mode, client, tempClientId, dynamicColumns, validationError,
                   showValidationError, inflight, fetchCount, genCount>>

handleSubmit ==
    /\ Step
    /\ open
    /\ IF OnSaveCalls(mode, formData) = << >>
       THEN /\ validationError' = ErrorMessage(MissingFields(formData))
            /\ showValidationError' = TRUE
       ELSE UNCHANGED <<validationError, showValidationError>>
    /\ last' = [op |-> "handleSubmit", key |-> "", arg |-> Undefined,
                calls |-> OnSaveCalls(mode, formData)]
    /\ UNCHANGED <<open, mode, client, formData, formDataState, tempClientId,
                   dynamicColumns, inflight, fetchCount, genCount>>

\* the Snackbar's onClose: its close button, a click away, or its 6000 ms timeout
handleCloseValidationError ==
    /\ Step
    /\ showValidationError
    /\ showValidationError' = FALSE
    /\ last' = NoCall("handleCloseValidationError")
    /\ UNCHANGED <<open, mode, client, formData, formDataState, tempClientId,
                   dynamicColumns, validationError, inflight, fetchCount, genCount>>

\* the render the framework schedules after a child's callback queued an update
Render ==
    /\ formData # formDataState
    /\ formData' = formDataState
    /\ last' = NoCall("render")
    /\ UNCHANGED <<open, mode, client, formDataState, tempClientId, dynamicColumns,
                   validationError, showValidationError, inflight, fetchCount,
                   genCount, budget>>

---------------------------------------------------------------------------
(* The component as a whole: the parent changes the props, fetches settle, *)
(* the user edits two of the fields and uses every other control.          *)

SomeFields == {"first_name", "is_active"}

Next ==
    \/ OpenDialog
    \/ CloseDialog
    \/ \E c \in ClientProps, m \in Modes : SetProps(c, m)
    \/ \E id \in inflight, columns \in ColumnLists : FetchResolved(id, columns)
    \/ \E id \in inflight : FetchRejected(id)
    \/ \E field \in SomeFields : \E event \in Events(field) : handleChange(field, event)
    \/ \E columnName \in ColumnNames, value \in DynamicValues :
           handleDynamicFieldChange(columnName, value)
    \/ \E fields \in CustomFieldSaves : handleCustomFieldsSave(fields)
    \/ \E documents \in DocumentSaves : handleDocumentsSave(documents)
    \/ \E fieldName \in CustomFieldNames : handleDeleteCustomField(fieldName)
    \/ \E docName \in DocumentNames : handleDeleteDocument(docName)
    \/ handleSubmit
    \/ handleCloseValidationError
    \/ Render

Spec == Init /\ [][Next]_vars

---------------------------------------------------------------------------
(* One session of the open dialog: the props stay as mounted, the user     *)
(* edits every mandatory field.                                            *)

\* a create session is mounted without a client
InitSession ==
    /\ Mounted
    /\ open
    /\ mode = "create" => client = Undefined
    /\ budget = MaxSessionSteps

NextSession ==
    \/ \E field \in EditedFields : \E event \in Events(field) : handleChange(field, event)
    \/ \E fields \in CustomFieldSaves : handleCustomFieldsSave(fields)
    \/ handleSubmit
    \/ handleCloseValidationError
    \/ Render

SpecSession == InitSession /\ [][NextSession]_vars

---------------------------------------------------------------------------
(* Vocabulary of the properties.  The held record is formDataState: the    *)
(* form's state with every queued update applied.                          *)

\* a value that is absent, empty or made of white space only
Blank(v) ==
    \/ v.kind = "undefined"
    \/ v.kind = "string" /\ \A i \in 1..Len(v.s) : v.s[i] = " "

BlankFields(rec) == {f \in MandatorySet : Blank(rec[f])}

\* the labels of the fields of S in the fixed order, joined by ", "
Listing(S) ==
    LET l1 == IF "first_name" \in S THEN "First Name" ELSE ""
        l2 == IF "last_name" \in S
              THEN (IF l1 = "" THEN "" ELSE l1 \o ", ") \o "Last Name"
              ELSE l1
        l3 == IF "primary_email" \in S
              THEN (IF l2 = "" THEN "" ELSE l2 \o ", ") \o "Primary Email"
              ELSE l2
    IN  IF "primary_phone" \in S
        THEN (IF l3 = "" THEN "" ELSE l3 \o ", ") \o "Primary Phone"
        ELSE l3

\* a sub-map as a map: an absent sub-map has no entry
Entries(v) == IF v.kind = "object" THEN v.m ELSE EmptyMap

Submitted == last.op = "handleSubmit"

---------------------------------------------------------------------------
(* C1: in create mode, for every non-empty subset S of the four mandatory  *)
(* fields, a submit made while exactly the fields of S are empty, absent   *)
(* or whitespace-only sets the validation message to "Please fill the      *)
(* following mandatory fields: " followed by the labels of exactly the     *)
(* fields of S, joined by ", " in the order First Name, Last Name, Primary *)
(* Email, Primary Phone, and marks the error as shown.                     *)
C1_MessageNamesExactlyTheBlankFields ==
    \A S \in SUBSET MandatorySet :
        (Submitted /\ mode = "create" /\ S # {} /\ BlankFields(formDataState) = S)
        => /\ validationError = "Please fill the following mandatory fields: " \o Listing(S)
           /\ showValidationError

\* a create-mode submit with a whitespace-only last name and an empty phone
C1_Witness ==
    /\ Submitted
    /\ mode = "create"
    /\ formDataState["first_name"] = Str(<<"a">>)
    /\ formDataState["last_name"] = Str(<<" ">>)
    /\ formDataState["primary_email"] = Str(<<"a">>)
    /\ formDataState["primary_phone"] = Str(<< >>)
    /\ validationError = "Please fill the following mandatory fields: Last Name, Primary Phone"
    /\ showValidationError

(* C2: in create mode, a submit made when all four mandatory fields are    *)
(* non-empty after trimming calls onSave exactly once, with a record that  *)
(* holds every value entered so far: the held record.                      *)
C2_SaveReceivesTheHeldRecord ==
    (Submitted /\ mode = "create" /\ BlankFields(formDataState) = {})
    => last.calls = <<formDataState>>

(* C3: in edit mode every submit calls onSave with the current held        *)
(* record, whatever the mandatory fields hold, and sets neither the        *)
(* validation message nor the error-shown flag.                            *)
C3_EditSubmitSavesTheHeldRecord ==
    [][(last'.op = "handleSubmit" /\ mode = "edit")
       => /\ last'.calls = <<formDataState>>
          /\ UNCHANGED <<validationError, showValidationError>>]_vars

(* C4: every submit ends in exactly one of two outcomes: the error is      *)
(* shown and onSave is not called, or onSave is called.  A create-mode     *)
(* submit with a mandatory field empty does not call onSave and leaves the *)
(* held record, the temporary identifier and the dynamic columns as they   *)
(* were.                                                                   *)
C4_SubmitOutcomes ==
    [][last'.op = "handleSubmit"
       => /\ LET errorOnly == showValidationError' /\ last'.calls = << >>
                 saved == last'.calls # << >>
             IN  (errorOnly \/ saved) /\ ~(errorOnly /\ saved)
          /\ (mode = "create" /\ BlankFields(formDataState) # {})
             => /\ last'.calls = << >>
                /\ UNCHANGED <<formDataState, tempClientId, dynamicColumns>>]_vars

\* a create-mode submit that was refused, with a custom field merged before it
C4_Witness ==
    /\ Submitted
    /\ mode = "create"
    /\ BlankFields(formDataState) = {"primary_phone"}
    /\ Entries(formDataState["user_defined_fields"]) # EmptyMap
    /\ last.calls = << >>
    /\ showValidationError

(* C5: open, close, open again in create mode with the same client: the    *)
(* temporary identifier in effect during the second open differs from the  *)
(* one in effect during the first.                                         *)
C5_ReopenGivesANewTempId ==
    [][(last.op = "close" /\ last'.op = "open" /\ mode = "create")
       => tempClientId' # tempClientId]_vars

(* C6: the identifier passed to the documents dialog is the record's real  *)
(* identifier whenever mode is edit, and the generated, non-empty          *)
(* temporary identifier whenever mode is create, for every client prop.    *)
C6_DocumentsIdFollowsMode ==
    /\ (mode = "edit" /\ client # Undefined /\ client["id"].kind = "number")
       => getClientIdForDocuments = ToString(client["id"].n)
    /\ mode = "create"
       => getClientIdForDocuments = tempClientId /\ tempClientId # ""

(* C7: a save from the custom-fields dialog or the documents dialog merges *)
(* the returned map into the sub-map: the keys are the union, a returned   *)
(* key takes the returned value, every other entry keeps its value, and    *)
(* every other field of the held record is unchanged.                      *)
C7_MergeIsAdditive ==
    [][last'.op \in {"handleCustomFieldsSave", "handleDocumentsSave"}
       => LET before == Entries(formDataState[last'.key])
              after == Entries(formDataState'[last'.key])
              returned == last'.arg.m
          IN  /\ formDataState'[last'.key].kind = "object"
              /\ DOMAIN after = (DOMAIN before) \cup (DOMAIN returned)
              /\ \A n \in DOMAIN returned : after[n] = returned[n]
              /\ \A n \in (DOMAIN before) \ (DOMAIN returned) : after[n] = before[n]
              /\ \A k \in Keys \ {last'.key} : formDataState'[k] = formDataState[k]]_vars

\* on a loaded client that holds k1 = x: a save of k2 (a disjoint key) and a
\* save of k1 = y (a key already present) leave k1 = y and k2 = y
C7_Witness ==
    /\ last.op = "handleCustomFieldsSave"
    /\ mode = "edit"
    /\ client = ClientZero
    /\ formDataState =
           [ClientZero EXCEPT !["user_defined_fields"] =
               Obj([n \in {"k1", "k2"} |-> Str(<<"y">>)])]

(* C8: deleting one custom field or one document removes exactly that key: *)
(* the sub-map is its value before the deletion minus the key, and the     *)
(* other sub-map and every other field of the held record are unchanged.   *)
C8_DeleteRemovesExactlyOneKey ==
    [][last'.op \in {"handleDeleteCustomField", "handleDeleteDocument"}
       => LET before == Entries(formDataState[last'.key])
              after == Entries(formDataState'[last'.key])
              name == last'.arg.s[1]
          IN  /\ DOMAIN after = (DOMAIN before) \ {name}
              /\ \A n \in DOMAIN after : after[n] = before[n]
              /\ \A k \in Keys \ {last'.key} : formDataState'[k] = formDataState[k]]_vars

(* C9: an edit of field F through handleChange or handleDynamicFieldChange *)
(* leaves the held record as it was on every key other than F.             *)
C9_EditTouchesOneKey ==
    [][last'.op \in {"handleChange", "handleDynamicFieldChange"}
       => \A k \in Keys \ {last'.key} : formDataState'[k] = formDataState[k]]_vars

(* C10: after a failed metadata fetch the dynamic-column list is empty;    *)
(* after a successful one it equals the returned columns.                  *)
C10_FetchOutcomeSetsColumns ==
    [][/\ last'.op = "fetchRejected" => dynamicColumns' = << >>
       /\ last'.op = "fetchResolved" => dynamicColumns' = last'.arg.m]_vars

---------------------------------------------------------------------------
(* Initialization of the held record and of the temporary identifier *)

\* the prop change whose effect has just run
Reinitialized == last.op = "props"

\* C11 (as amended): every change of client or mode re-initializes the held
\* record: in edit mode WITH a provided record the held record becomes that
\* record and the temporary identifier is kept; in every other case (create
\* mode, or edit mode without a record) the held record becomes exactly
\* {case_status: "Active"} and a new, non-empty temporary identifier is stored.
C11_InitializationByBranch ==
    [][last'.op = "props" =>
         IF mode' = "edit" /\ client' # Undefined
         THEN /\ formDataState' = client'
              /\ tempClientId' = tempClientId
         ELSE /\ \A k \in Keys : formDataState'[k] =
                     IF k = "case_status" THEN Str(<<"A","c","t","i","v","e">>)
                     ELSE Undefined
              /\ tempClientId' # tempClientId
              /\ tempClientId' # ""]_vars

\* edit mode without a record: the default record and a regenerated identifier
C11_Witness ==
    /\ Reinitialized
    /\ mode = "edit"
    /\ client = Undefined
    /\ formDataState["case_status"] = Str(<<"A","c","t","i","v","e">>)
    /\ genCount = 2
    /\ tempClientId = TempId(2)

\* C11 (as stated): whenever mode is "edit" the held record is initialized to
\* the provided record and the temporary identifier is not regenerated;
\* otherwise the held record is exactly {case_status: "Active"} and a new
\* temporary identifier is stored.
C11_AsStated ==
    [][last'.op = "props" =>
         IF mode' = "edit"
         THEN /\ formDataState' = client'
              /\ tempClientId' = tempClientId
         ELSE /\ \A k \in Keys : formDataState'[k] =
                     IF k = "case_status" THEN Str(<<"A","c","t","i","v","e">>)
                     ELSE Undefined
              /\ tempClientId' # tempClientId
              /\ tempClientId' # ""]_vars

---------------------------------------------------------------------------
(* Fetches and open transitions *)

\* the dialog goes from closed to open in this step
OpenTransition == ~open /\ open'

\* C12: a metadata fetch is issued exactly once on each transition of the
\* dialog to open and by no other step: an open transition issues one new
\* fetch, and every other step (edits, merges, deletions, submits, dismissals,
\* closing, prop changes, responses, renders) issues none, so the number of
\* fetches issued grows exactly with the number of open transitions.
C12_OneFetchPerOpenTransition ==
    [][IF OpenTransition
       THEN /\ fetchCount' = fetchCount + 1
            /\ inflight' = inflight \cup {fetchCount'}
            /\ fetchCount' \notin inflight
       ELSE /\ fetchCount' = fetchCount
            /\ inflight' \subseteq inflight]_vars

\* mounted open, closed, opened again and closed again: two fetches in all
C12_Witness ==
    /\ last.op = "close"
    /\ fetchCount = 2
    /\ ~open

---------------------------------------------------------------------------
(* Updates applied to state but not yet rendered *)

\* the last operation queued an update that no render has bound yet
PendingUpdate ==
    /\ last.op \in {"handleCustomFieldsSave", "handleDocumentsSave",
                    "handleDynamicFieldChange"}
    /\ formData # formDataState

\* C13: no update is lost to a stale snapshot: when a custom-field or
\* document merge, or a dynamic-field change, is in state but not yet
\* rendered, a following handleChange, handleDeleteCustomField or
\* handleDeleteDocument leaves that update's keys and values in the held
\* record (a key the following operation itself edits or deletes excepted).
C13_NoUpdateLostToStaleSnapshot ==
    [][(/\ PendingUpdate
        /\ last'.op \in {"handleChange", "handleDeleteCustomField",
                         "handleDeleteDocument"})
       => IF last.op = "handleDynamicFieldChange"
          THEN last'.key = last.key \/ formDataState'[last.key] = last.arg
          ELSE LET after == Entries(formDataState'[last.key])
               IN  \A n \in DOMAIN last.arg.m :
                      \/ /\ last'.op # "handleChange"
                         /\ last'.key = last.key
                         /\ last'.arg.s[1] = n
                      \/ /\ n \in DOMAIN after
                         /\ after[n] = last.arg.m[n]]_vars

---------------------------------------------------------------------------
(* Responses of overlapping fetches *)

\* the response of the most recent open's fetch has just been stored
NewestFetchStored ==
    /\ last.op = "fetchResolved"
    /\ last.key = ToString(fetchCount)

\* C14: the response of an older open never overwrites the result of a newer
\* one: once the fetch of the most recent open has resolved and its columns
\* are stored, a response of an earlier open's fetch arriving next leaves the
\* stored list equal to the most recent fetch's result.
C14_NewestFetchWins ==
    [][(NewestFetchStored /\ last'.op = "fetchResolved")
       => /\ last'.key # ToString(fetchCount)
          /\ dynamicColumns' = last.arg.m]_vars

---------------------------------------------------------------------------
(* The validation notice *)

\* the submit that has just run invoked the save callback
Saved == Submitted /\ last.calls # << >>

\* C15: the validation notice is not showing at the moment a submit invokes
\* the save callback, nor right after a change of mode or client has
\* re-initialized the record: no notice of an earlier failed submit stays up.
C15_NoStaleNotice ==
    (Saved \/ Reinitialized) => ~showValidationError

====
